---- MODULE Spec2Model ----
(***************************************************************************)
(* Model of the occupancy pipeline of src/data_analysis/util.py:           *)
(*   filter_setpoint -> split_by_occupancy -> remove_asymptotes ->         *)
(*   simplify_occurrences, and of the per-room driver                      *)
(*   combine_all_room_data.                                                *)
(*                                                                         *)
(* A DataFrame is a function from its integer index labels to row records. *)
(* Every table the code builds here has an ascending index (groupby yields *)
(* its groups in ascending key order and dict.update appends new keys), so *)
(* the label set determines the row order.                                 *)
(* Temperatures are in tenths of a degree: 3 degrees is 30, 2.5 is 25.     *)
(* datetime is in seconds.                                                 *)
(***************************************************************************)
EXTENDS Integers, Sequences, FiniteSets, TLC

\* ------------------------------------------------------------- bounds
\* number of row stretches a loaded room series is made of
MaxSegs == 4
\* number of rooms in a room list
MaxRooms == 3

\* ------------------------------------------------- program constants
\* util.py:71-72  RmTmpCspt + 3 / RmTmpCspt - 3 (tenths of a degree)
OccupancyThreshold == 30
\* util.py:75-76  start_idx + 20
SplitWindow == 20
\* util.py:102-103  start_idx + 30
TrimWindow == 30
\* util.py:108  TempDiff <= 2.5 (tenths of a degree)
Tolerance == 25
\* util.py:142  TimeToStable > 300
MaxStableMinutes == 300
\* util.py:141  total_seconds() // 60
SecondsPerMinute == 60

\* ------------------------------------------------------------- inputs
\* The kinds of sample a room series is drawn from (RmTmp, RmTmpCspt,
\* RmTmpHpst): unoccupied rows carry the widest setpoints.
RowKinds ==
  [ U  |-> [RmTmp |-> 740, RmTmpCspt |-> 800, RmTmpHpst |-> 600],
    UF |-> [RmTmp |-> 770, RmTmpCspt |-> 800, RmTmpHpst |-> 600],
    OF |-> [RmTmp |-> 770, RmTmpCspt |-> 740, RmTmpHpst |-> 680],
    OB |-> [RmTmp |-> 690, RmTmpCspt |-> 720, RmTmpHpst |-> 680],
    ON |-> [RmTmp |-> 765, RmTmpCspt |-> 740, RmTmpHpst |-> 680],
    OM |-> [RmTmp |-> 767, RmTmpCspt |-> 740, RmTmpHpst |-> 680] ]

\* A stretch of equal samples: <<kind, number of rows>>.
SegmentShapes ==
  ({"U", "UF", "OF", "OB", "ON", "OM"} \X {1}) \cup ({"OF"} \X {9, 20})

\* Sampling periods in seconds.
Periods == {50, 900}

VARIABLES
  pc,        \* stage of the pipeline run
  period,    \* sampling period of the series
  nsegs,     \* stretches loaded so far
  fullNone,  \* df_full is None (nothing loaded)
  full,      \* df_full
  filtered,  \* filter_setpoint's result
  occ,       \* split_by_occupancy's result
  contrib,   \* this_data of each iteration of remove_asymptotes' loop
  agg,       \* remove_asymptotes' result
  summary,   \* simplify_occurrences' result
  status,    \* position of combine_all_room_data: start, running, returned, aborted
  nrooms,    \* len(room_list); the rooms are 1..nrooms in list order
  stats,     \* room_stats_df: whether the file was read, and the rooms it has a row for
  pos,       \* rooms the loop has gone through
  outcomes,  \* what data_getter did for each room gone through
  visits,    \* the rooms data_getter was called with, in call order
  processed_rooms

pipevars == <<pc, period, nsegs, fullNone, full, filtered, occ, contrib, agg, summary>>

roomvars == <<status, nrooms, stats, pos, outcomes, visits, processed_rooms>>

vars == <<pc, period, nsegs, fullNone, full, filtered, occ, contrib, agg, summary,
          status, nrooms, stats, pos, outcomes, visits, processed_rooms>>

\* ------------------------------------------------------------ helpers
EmptyDF == [i \in {} |-> 0]

IsEmpty(df) == DOMAIN df = {}

Abs(x) == IF x < 0 THEN -x ELSE x

SetMin(S) == CHOOSE m \in S : \A x \in S : m <= x

SetMax(S) == CHOOSE m \in S : \A x \in S : m >= x

\* the labels of an index in ascending order
RECURSIVE SortSet(_)
SortSet(S) ==
  IF S = {} THEN << >>
  ELSE LET m == SetMin(S) IN <<m>> \o SortSet(S \ {m})

\* df.groupby(df.index - np.arange(len(df))): the groups in ascending key
\* order, each the ascending sequence of its labels.
GroupByRun(df) ==
  LET idx == SortSet(DOMAIN df)
      key == [p \in 1..Len(idx) |-> idx[p] - (p - 1)]
      keys == SortSet({key[p] : p \in 1..Len(idx)})
  IN  [n \in 1..Len(keys) |->
         SortSet({idx[p] : p \in {q \in 1..Len(idx) : key[q] = keys[n]}})]

\* final_data = this_data.to_dict() on the first episode, and
\* orig_dict.update(v) for every column afterwards.
DictUpdate(final_data, this_data) ==
  IF IsEmpty(final_data) THEN this_data
  ELSE [j \in DOMAIN final_data \cup DOMAIN this_data |->
          IF j \in DOMAIN this_data THEN this_data[j] ELSE final_data[j]]

\* variant: the range keeps its end label, range(start_idx, start_idx + n + 1)
LookaheadInclusive(df_full, start_idx, n) ==
  IF start_idx + n \in DOMAIN df_full
  THEN [j \in start_idx..(start_idx + n) |-> df_full[j]]
  ELSE [j \in {x \in DOMAIN df_full : x >= start_idx} |-> df_full[j]]

\* df_full.loc[range(start_idx, start_idx + n)] when start_idx + n is a
\* label of df_full, else df_full.loc[start_idx:]
Lookahead(df_full, start_idx, n) ==
  IF start_idx + n \in DOMAIN df_full
  THEN [j \in start_idx..(start_idx + n - 1) |-> df_full[j]]
  ELSE [j \in {x \in DOMAIN df_full : x >= start_idx} |-> df_full[j]]

\* ----------------------------------------------------- filter_setpoint
filter_setpoint(isNone, df) ==
  IF isNone \/ IsEmpty(df) THEN EmptyDF
  ELSE
    LET top_threshold == SetMax({df[i].RmTmpCspt : i \in DOMAIN df})
        bottom_threshold == SetMin({df[i].RmTmpHpst : i \in DOMAIN df})
        first == {i \in DOMAIN df : df[i].RmTmpCspt < top_threshold}
        second == {i \in first : df[i].RmTmpHpst > bottom_threshold}
    IN  [i \in second |-> df[i]]

\* -------------------------------------------------- split_by_occupancy
\* variant: the lower bound compared with the wrong sign
HeadQualifiesSignSlip(head) ==
  \/ head.RmTmp >= head.RmTmpCspt + OccupancyThreshold
  \/ head.RmTmp <= head.RmTmpCspt + OccupancyThreshold

\* variant: the upper comparison without its margin
HeadQualifiesNoMargin(head) ==
  \/ head.RmTmp >= head.RmTmpCspt
  \/ head.RmTmp <= head.RmTmpCspt - OccupancyThreshold

\* variant: the margin of the trimming tolerance instead of 3 degrees
HeadQualifiesTolerance(head) ==
  \/ head.RmTmp >= head.RmTmpCspt + Tolerance
  \/ head.RmTmp <= head.RmTmpCspt - Tolerance

HeadQualifies(head) ==
  \/ head.RmTmp >= head.RmTmpCspt + OccupancyThreshold
  \/ head.RmTmp <= head.RmTmpCspt - OccupancyThreshold

RECURSIVE SplitLoop(_, _, _, _, _)
SplitLoop(list_of_df, n, df, df_full, final_data) ==
  IF n > Len(list_of_df) THEN final_data
  ELSE
    LET new_df == list_of_df[n]
        start_idx == new_df[1]
    IN  IF HeadQualifies(df[start_idx])
        THEN SplitLoop(list_of_df, n + 1, df, df_full,
               DictUpdate(final_data, Lookahead(df_full, start_idx, SplitWindow)))
        ELSE SplitLoop(list_of_df, n + 1, df, df_full, final_data)

split_by_occupancy(df, df_full) ==
  SplitLoop(GroupByRun(df), 1, df, df_full, EmptyDF)

\* --------------------------------------------------- remove_asymptotes
\* variant: the episode is cut at the last row within tolerance, end_idxes[-1]
TrimEpisodeLast(df, df_full, new_df) ==
  LET start_idx == new_df[1]
      room_goal_temp == df[start_idx].RmTmpCspt
      window == Lookahead(df_full, start_idx, TrimWindow)
      this_data == [j \in DOMAIN window |->
                      [RmTmp |-> window[j].RmTmp,
                       RmTmpCspt |-> window[j].RmTmpCspt,
                       RmTmpHpst |-> window[j].RmTmpHpst,
                       datetime |-> window[j].datetime,
                       TempDiff |-> Abs(window[j].RmTmp - room_goal_temp)]]
      end_idxes == SortSet({j \in DOMAIN this_data : this_data[j].TempDiff <= Tolerance})
  IN  IF Len(end_idxes) = 0 THEN EmptyDF
      ELSE LET end_idx == end_idxes[Len(end_idxes)] + 1
           IN  [j \in start_idx..(end_idx - 1) |-> this_data[j]]

\* One iteration of the loop: this_data, or the empty table on `continue`.
TrimEpisode(df, df_full, new_df) ==
  LET start_idx == new_df[1]
      room_goal_temp == df[start_idx].RmTmpCspt
      window == Lookahead(df_full, start_idx, TrimWindow)
      this_data == [j \in DOMAIN window |->
                      [RmTmp |-> window[j].RmTmp,
                       RmTmpCspt |-> window[j].RmTmpCspt,
                       RmTmpHpst |-> window[j].RmTmpHpst,
                       datetime |-> window[j].datetime,
                       TempDiff |-> Abs(window[j].RmTmp - room_goal_temp)]]
      end_idxes == SortSet({j \in DOMAIN this_data : this_data[j].TempDiff <= Tolerance})
  IN  IF Len(end_idxes) = 0 THEN EmptyDF
      ELSE LET end_idx == end_idxes[1] + 1
           IN  [j \in start_idx..(end_idx - 1) |-> this_data[j]]

RECURSIVE TrimLoop(_, _, _, _, _)
TrimLoop(list_of_df, n, df, df_full, final_data) ==
  IF n > Len(list_of_df) THEN final_data
  ELSE
    LET this_data == TrimEpisode(df, df_full, list_of_df[n])
    IN  IF IsEmpty(this_data)
        THEN TrimLoop(list_of_df, n + 1, df, df_full, final_data)
        ELSE TrimLoop(list_of_df, n + 1, df, df_full, DictUpdate(final_data, this_data))

remove_asymptotes(df, df_full) ==
  TrimLoop(GroupByRun(df), 1, df, df_full, EmptyDF)

\* ------------------------------------------------ simplify_occurrences
TimeToStable(new_df, df) ==
  (df[new_df[Len(new_df)]].datetime - df[new_df[1]].datetime) \div SecondsPerMinute

RECURSIVE SimplifyLoop(_, _, _, _)
SimplifyLoop(list_of_df, n, df, final_data) ==
  IF n > Len(list_of_df) THEN final_data
  ELSE
    LET new_df == list_of_df[n]
        first == df[new_df[1]]
        this_occurrence == [idx |-> new_df[1],
                            RmTmp |-> first.RmTmp,
                            RmTmpCspt |-> first.RmTmpCspt,
                            RmTmpHpst |-> first.RmTmpHpst,
                            datetime |-> first.datetime,
                            TempDiff |-> first.TempDiff,
                            TimeToStable |-> TimeToStable(new_df, df)]
    IN  IF this_occurrence.TimeToStable > MaxStableMinutes
        THEN SimplifyLoop(list_of_df, n + 1, df, final_data)
        ELSE SimplifyLoop(list_of_df, n + 1, df, Append(final_data, this_occurrence))

simplify_occurrences(df) == SimplifyLoop(GroupByRun(df), 1, df, << >>)

\* ----------------------------------------------------- pipeline run
\* rows read for one stretch, appended to the series with a fresh
\* consecutive index and the next timestamps
AppendRows(df, kind, len, step) ==
  LET n == Cardinality(DOMAIN df)
  IN  [i \in 0..(n + len - 1) |->
         IF i < n THEN df[i]
         ELSE [RmTmp |-> RowKinds[kind].RmTmp,
               RmTmpCspt |-> RowKinds[kind].RmTmpCspt,
               RmTmpHpst |-> RowKinds[kind].RmTmpHpst,
               datetime |-> i * step]]

PipeIdle ==
  /\ nsegs = 0
  /\ fullNone = TRUE
  /\ full = EmptyDF
  /\ filtered = EmptyDF
  /\ occ = EmptyDF
  /\ contrib = EmptyDF
  /\ agg = EmptyDF
  /\ summary = << >>

RoomsIdle ==
  /\ status = "idle"
  /\ nrooms = 0
  /\ stats = [readable |-> FALSE, rooms |-> {}]
  /\ pos = 0
  /\ outcomes = << >>
  /\ visits = << >>
  /\ processed_rooms = << >>

Init ==
  /\ pc = "load"
  /\ period \in Periods
  /\ PipeIdle
  /\ RoomsIdle

LoadSegment ==
  /\ pc = "load"
  /\ nsegs < MaxSegs
  /\ \E shape \in SegmentShapes :
       full' = AppendRows(full, shape[1], shape[2], period)
  /\ fullNone' = FALSE
  /\ nsegs' = nsegs + 1
  /\ UNCHANGED roomvars
  /\ UNCHANGED <<pc, period, filtered, occ, contrib, agg, summary>>

LoadFails ==
  /\ pc = "load"
  /\ fullNone
  /\ fullNone' = FALSE
  /\ full' = EmptyDF
  /\ UNCHANGED roomvars
  /\ UNCHANGED <<pc, period, nsegs, filtered, occ, contrib, agg, summary>>

FilterSetpoint ==
  /\ pc = "load"
  /\ filtered' = filter_setpoint(fullNone, full)
  /\ pc' = "filtered"
  /\ UNCHANGED roomvars
  /\ UNCHANGED <<period, nsegs, fullNone, full, occ, contrib, agg, summary>>

SplitByOccupancy ==
  /\ pc = "filtered"
  /\ occ' = split_by_occupancy(filtered, full)
  /\ pc' = "split"
  /\ UNCHANGED roomvars
  /\ UNCHANGED <<period, nsegs, fullNone, full, filtered, contrib, agg, summary>>

RemoveAsymptotes ==
  /\ pc = "split"
  /\ agg' = remove_asymptotes(occ, full)
  /\ contrib' = LET g == GroupByRun(occ)
                IN  [s \in {g[n][1] : n \in 1..Len(g)} |->
                       LET n == CHOOSE m \in 1..Len(g) : g[m][1] = s
                       IN  TrimEpisode(occ, full, g[n])]
  /\ pc' = "trimmed"
  /\ UNCHANGED roomvars
  /\ UNCHANGED <<period, nsegs, fullNone, full, filtered, occ, summary>>

SimplifyOccurrences ==
  /\ pc = "trimmed"
  /\ summary' = simplify_occurrences(agg)
  /\ pc' = "summarised"
  /\ UNCHANGED roomvars
  /\ UNCHANGED <<period, nsegs, fullNone, full, filtered, occ, contrib, agg>>

\* ------------------------------------------------ combine_all_room_data
\* What data_getter(room) can do: return None, return an empty table, raise,
\* or return a series; writing the aggregated csv can fail for a series.
RoomSeries ==
  { << <<"U", 1>> >>,
    << <<"ON", 1>>, <<"U", 1>> >>,
    << <<"OF", 1>>, <<"UF", 1>> >>,
    << <<"OF", 1>>, <<"U", 1>> >>,
    << <<"OF", 20>>, <<"UF", 1>>, <<"U", 1>> >> }

GetterOutcomes ==
  [kind : {"None", "Empty", "Raises"}, segs : {<< >>}, csvFails : {FALSE}]
    \cup [kind : {"Data"}, segs : RoomSeries, csvFails : {FALSE}]
    \cup [kind : {"Data"}, segs : {<< <<"OF", 1>>, <<"U", 1>> >>}, csvFails : {TRUE}]

RECURSIVE SeriesOf(_, _, _)
SeriesOf(segs, n, step) ==
  IF n = 0 THEN EmptyDF
  ELSE AppendRows(SeriesOf(segs, n - 1, step), segs[n][1], segs[n][2], step)

\* util.py:216-217
FinalAppend(processed, room, hasMeta, final_df) ==
  IF final_df # << >>
  THEN Append(processed, [room |-> room, hasMeta |-> hasMeta, rows |-> final_df])
  ELSE processed

\* The body of the try block for one room: whether it raised, and
\* processed_rooms afterwards.
RoomBody(room_stats_df, room, o, step, processed) ==
  LET skip == [raised |-> FALSE, processed |-> processed]
      raise == [raised |-> TRUE, processed |-> processed]
  IN
  IF o.kind = "Raises" THEN raise
  ELSE IF o.kind = "None" \/ o.kind = "Empty" THEN skip
  ELSE
    LET full_df == SeriesOf(o.segs, Len(o.segs), step)
    IN
    \* room_stats_df["idBAS"] on the column-less fallback table: KeyError
    IF ~room_stats_df.readable THEN raise
    ELSE IF o.csvFails THEN raise
    ELSE
      LET hasMeta == room \in room_stats_df.rooms
          filtered_df1 == filter_setpoint(FALSE, full_df)
          filtered_df == split_by_occupancy(filtered_df1, full_df)
          agg_df == remove_asymptotes(filtered_df, full_df)
          final_df == simplify_occurrences(agg_df)
      IN  IF IsEmpty(filtered_df1) THEN skip
          ELSE IF IsEmpty(filtered_df) THEN skip
          ELSE IF IsEmpty(agg_df) THEN skip
          ELSE [raised |-> FALSE,
                processed |-> FinalAppend(processed, room, hasMeta, final_df)]

\* variant: no except clause, the exception leaves the loop
TryExceptPropagates(body) == body

\* try: ... except Exception as e: print(...)
TryExcept(body) == [body EXCEPT !.raised = FALSE]

InitRooms ==
  /\ pc = "idle"
  /\ period = 900
  /\ PipeIdle
  /\ status = "start"
  /\ nrooms \in 0..MaxRooms
  /\ stats = [readable |-> FALSE, rooms |-> {}]
  /\ pos = 0
  /\ outcomes = << >>
  /\ visits = << >>
  /\ processed_rooms = << >>

\* pd.read_csv(room_stats_path), or the fallback pd.DataFrame()
ReadRoomStats ==
  /\ status = "start"
  /\ \/ stats' = [readable |-> FALSE, rooms |-> {}]
     \/ \E rs \in SUBSET (1..nrooms) : stats' = [readable |-> TRUE, rooms |-> rs]
  /\ status' = "running"
  /\ UNCHANGED <<nrooms, pos, outcomes, visits, processed_rooms>>
  /\ UNCHANGED pipevars

\* one iteration of `for room in room_list`
ProcessRoom ==
  /\ status = "running"
  /\ pos < nrooms
  /\ \E o \in GetterOutcomes :
       LET room == pos + 1
           r == TryExcept(RoomBody(stats, room, o, period, processed_rooms))
       IN  /\ outcomes' = Append(outcomes, o)
           /\ visits' = Append(visits, room)
           /\ processed_rooms' = r.processed
           /\ status' = IF r.raised THEN "aborted" ELSE "running"
  /\ pos' = pos + 1
  /\ UNCHANGED <<nrooms, stats>>
  /\ UNCHANGED pipevars

\* return processed_rooms
ReturnRooms ==
  /\ status = "running"
  /\ pos = nrooms
  /\ status' = "returned"
  /\ UNCHANGED <<nrooms, stats, pos, outcomes, visits, processed_rooms>>
  /\ UNCHANGED pipevars

NextRooms ==
  \/ ReadRoomStats
  \/ ProcessRoom
  \/ ReturnRooms

SpecRooms == InitRooms /\ [][NextRooms]_vars

Next ==
  \/ LoadSegment
  \/ LoadFails
  \/ FilterSetpoint
  \/ SplitByOccupancy
  \/ RemoveAsymptotes
  \/ SimplifyOccurrences

Spec == Init /\ [][Next]_vars

\* ============================================================ claims
\* first labels of the maximal runs of consecutive labels of an index
RunStarts(S) == {i \in S : i - 1 \notin S}

\* the maximal run of consecutive labels that starts at s
RunOf(S, s) == {i \in S : \A j \in s..i : j \in S}

\* RmTmp at least 3 degrees above or below RmTmpCspt
OccupancyPredicate(row) ==
  \/ row.RmTmp - row.RmTmpCspt >= OccupancyThreshold
  \/ row.RmTmpCspt - row.RmTmp >= OccupancyThreshold

SameReadings(a, b) ==
  /\ a.RmTmp = b.RmTmp
  /\ a.RmTmpCspt = b.RmTmpCspt
  /\ a.RmTmpHpst = b.RmTmpHpst
  /\ a.datetime = b.datetime

AfterSplit == pc \in {"split", "trimmed", "summarised"}

AfterTrim == pc \in {"trimmed", "summarised"}

\* C1: the first row of every maximal run of consecutive labels in
\* split_by_occupancy's result is a row of the filtered table whose RmTmp is
\* at least 3 degrees above or below its RmTmpCspt.
C1_FirstRowOccupied ==
  AfterSplit =>
    \A s \in RunStarts(DOMAIN occ) :
      /\ s \in DOMAIN filtered
      /\ occ[s] = filtered[s]
      /\ OccupancyPredicate(occ[s])

C1_Witness ==
  /\ pc = "split"
  /\ Cardinality(RunStarts(DOMAIN occ)) >= 2
  /\ \E i \in DOMAIN occ : ~OccupancyPredicate(occ[i])

\* C2 (as stated): every maximal run of consecutive labels in
\* split_by_occupancy's result holds at most 20 rows.
C2_RunAtMostWindow ==
  AfterSplit =>
    \A s \in RunStarts(DOMAIN occ) :
      Cardinality(RunOf(DOMAIN occ, s)) <= SplitWindow

\* C3: every episode of remove_asymptotes' input, starting at s with goal g
\* = RmTmpCspt at s, contributes exactly the rows s..e of the full table, e
\* the first label among the 30 rows from s (or the tail of the full table)
\* whose |RmTmp - g| is within 2.5 degrees; it contributes nothing when there
\* is no such label; the result holds exactly the contributed rows.
C3_TrimAtFirstConvergence ==
  AfterTrim =>
    /\ DOMAIN contrib = RunStarts(DOMAIN occ)
    /\ DOMAIN agg = UNION {DOMAIN contrib[s] : s \in DOMAIN contrib}
    /\ \A s \in RunStarts(DOMAIN occ) :
         LET g == occ[s].RmTmpCspt
             W == {i \in DOMAIN full : s <= i /\ i <= s + TrimWindow - 1}
             C == {i \in W : Abs(full[i].RmTmp - g) <= Tolerance}
         IN  IF C = {} THEN DOMAIN contrib[s] = {}
             ELSE \E e \in C :
                    /\ \A k \in W : k < e => k \notin C
                    /\ DOMAIN contrib[s] = s..e
                    /\ \A i \in s..e : SameReadings(contrib[s][i], full[i])

C3_Witness ==
  /\ pc = "trimmed"
  /\ \E s \in DOMAIN contrib : DOMAIN contrib[s] = {}
  /\ \E s \in DOMAIN contrib :
       /\ Cardinality(DOMAIN contrib[s]) >= 2
       /\ \E i \in DOMAIN full :
            /\ i > s + Cardinality(DOMAIN contrib[s]) - 1
            /\ i <= s + TrimWindow - 1
            /\ Abs(full[i].RmTmp - occ[s].RmTmpCspt) <= Tolerance

\* whole minutes between the first and the last row an episode contributed
EpisodeMinutes(s) ==
  LET e == SetMax(DOMAIN contrib[s])
  IN  (full[e].datetime - full[s].datetime) \div SecondsPerMinute

\* C4 (as stated): every episode remove_asymptotes kept whose stabilisation
\* time is at most 300 minutes has exactly one row in simplify_occurrences'
\* result, the episode's own first row.
C4_OneRowPerEpisode ==
  pc = "summarised" =>
    \A s \in DOMAIN contrib :
      (DOMAIN contrib[s] # {} /\ EpisodeMinutes(s) <= MaxStableMinutes) =>
        Cardinality({n \in 1..Len(summary) : summary[n].idx = s}) = 1

\* every stage of the pipeline gives a non-empty table for the series
StagesNonEmpty(o, step) ==
  /\ o.kind = "Data"
  /\ LET full_df == SeriesOf(o.segs, Len(o.segs), step)
         f1 == filter_setpoint(FALSE, full_df)
         f2 == split_by_occupancy(f1, full_df)
         f3 == remove_asymptotes(f2, full_df)
     IN  /\ ~IsEmpty(f1)
         /\ ~IsEmpty(f2)
         /\ ~IsEmpty(f3)
         /\ simplify_occurrences(f3) # << >>

C6_NoMatchEmpty ==
  /\ AfterSplit =>
       ((\A s \in RunStarts(DOMAIN filtered) : ~OccupancyPredicate(filtered[s]))
          => IsEmpty(occ))
  /\ pc # "load" => ((fullNone \/ IsEmpty(full)) => IsEmpty(filtered))

C6_Witness ==
  /\ pc = "split"
  /\ ~IsEmpty(filtered)
  /\ \A s \in RunStarts(DOMAIN filtered) : ~OccupancyPredicate(filtered[s])
  /\ IsEmpty(occ)

\* C7 (as stated): every row of split_by_occupancy's result is a row of the
\* filtered table.
C7_OnlyFilteredRows ==
  AfterSplit => DOMAIN occ \subseteq DOMAIN filtered

\* C7 (amended): every row of split_by_occupancy's result is a row of the
\* full table among the 20 rows from the first row of a run of the filtered
\* table whose first row is at least 3 degrees from its setpoint.
C7_RowsWithinWindow ==
  AfterSplit =>
    \A i \in DOMAIN occ :
      /\ i \in DOMAIN full
      /\ occ[i] = full[i]
      /\ \E s \in RunStarts(DOMAIN filtered) :
           /\ OccupancyPredicate(filtered[s])
           /\ s <= i
           /\ i <= s + SplitWindow - 1

C7_Witness ==
  /\ pc = "split"
  /\ \E i \in DOMAIN occ : i \notin DOMAIN filtered
  /\ \E s \in RunStarts(DOMAIN filtered) :
       /\ OccupancyPredicate(filtered[s])
       /\ s + SplitWindow \in DOMAIN full

\* C8 (as stated): every row of simplify_occurrences' result has a
\* stabilisation time below 300 minutes, and not below 0.
C8_BelowMaxStable ==
  pc = "summarised" =>
    \A n \in 1..Len(summary) :
      /\ summary[n].TimeToStable < MaxStableMinutes
      /\ summary[n].TimeToStable >= 0

\* what combine_all_room_data returns for the outcomes when the statistics
\* file is read
RECURSIVE CombineWith(_, _, _, _)
CombineWith(room_stats_df, os, n, step) ==
  IF n = 0 THEN << >>
  ELSE TryExcept(RoomBody(room_stats_df, n, os[n], step,
                          CombineWith(room_stats_df, os, n - 1, step))).processed

\* C9 (as stated): with an unreadable statistics file the result equals the
\* result for the same rooms with a readable file that matches none of them.
C9_FallbackSameAsNoMatch ==
  (status = "returned" /\ ~stats.readable) =>
    processed_rooms =
      CombineWith([readable |-> TRUE, rooms |-> {}], outcomes, nrooms, period)

\* C10: the first row of every maximal run of consecutive labels in
\* remove_asymptotes' result has TempDiff >= 3 degrees and is followed by a
\* row of the same run; every row of simplify_occurrences' result has
\* TempDiff >= 3 degrees.
C10_FirstRowNotConverged ==
  /\ AfterTrim =>
       \A s \in RunStarts(DOMAIN agg) :
         /\ agg[s].TempDiff >= OccupancyThreshold
         /\ s + 1 \in DOMAIN agg
  /\ pc = "summarised" =>
       \A n \in 1..Len(summary) : summary[n].TempDiff >= OccupancyThreshold

C10_Witness ==
  /\ pc = "summarised"
  /\ Len(summary) >= 1
  /\ \E s \in DOMAIN contrib :
       /\ DOMAIN contrib[s] # {}
       /\ s \notin RunStarts(DOMAIN agg)
       /\ \E t \in DOMAIN contrib :
            \E i \in DOMAIN contrib[t] : agg[i].TempDiff # contrib[t][i].TempDiff
====
